---- MODULE Spec2Model ----
(***************************************************************************)
(* DaskExecutor.execute (dagster_dask/executor.py) as a state machine: the *)
(* precondition checks, the provisioning of the cluster, the client        *)
(* session, the submission loop over the leveled plan, the Dask scheduler  *)
(* that runs the submitted tasks, and the aggregator that drains the       *)
(* futures in completion order and yields their events.                    *)
(***************************************************************************)
EXTENDS Naturals, Sequences, FiniteSets, TLC

\* Largest number of items a step's future resolves to.
MaxEvents == 2

\* The step keys of the plan, in key order.
StepKeys == <<"A", "B", "C">>

Steps == {StepKeys[i] : i \in 1..Len(StepKeys)}

KeyIndex(s) == CHOOSE i \in 1..Len(StepKeys) : StepKeys[i] = s

NoStep == "-"

PipelineNames == {"pipeline"}

VARIABLES
    \* inputs of execute
    storage,                       \* run_config.get('storage'): "missing", "empty", "set"
    instance_is_persistent,        \* pipeline_context.instance.is_persistent
    system_storage_is_persistent,  \* pipeline_context.system_storage_def.is_persistent
    cluster_type,                  \* self.cluster_type
    pipeline_name,                 \* pipeline_context.pipeline_def.name
    step_inputs,                   \* step key -> sequence of step inputs
    step_levels,                   \* execution_plan.execution_step_levels()
    \* the generator's own state
    pc,                            \* position in execute
    raised,                        \* the exception that left execute
    li, si,                        \* position of the submission loop (level, step)
    execution_futures,             \* the worklist, in submission order
    execution_futures_dict,        \* step key -> future
    nDrained,                      \* futures as_completed has handed out
    retrieved,                     \* the futures whose result() was called, in order
    cur, curIdx,                   \* future being unwrapped, next item of its result
    yielded,                       \* the events yielded to the caller, in order
    \* the cluster and the client session
    cluster,                       \* class of the provisioned cluster, or "none"
    cluster_alive,                 \* a provisioned cluster that was not torn down
    client_opened, client_closed,  \* Client.__enter__ / Client.__exit__ calls
    submissions,                   \* the client.submit calls, in order
    \* the Dask scheduler
    status,                        \* future -> "none", "pending", "finished", "error"
    started,                       \* tasks whose work a worker has started
    result,                        \* future -> the list it resolves to
    completed,                     \* futures in the order they resolved
    \* the operations checked on their own
    returned,                      \* the operation that has returned, "" before
    cluster_configuration,         \* self.cluster_configuration
    dask_cfg,                      \* what build_dict returned
    step_tags,                     \* the tags given to get_dask_resource_requirements
    requirements,                  \* what get_dask_resource_requirements returned
    \* FTPResource.download
    remote_blocks,                 \* the blocks the server sends for the file, in order
    final_reply,                   \* the server's reply at the end of the transfer
    ftp_pc,                        \* position in the FTP operation
    ftp_raised,                    \* the exception that left the FTP operation
    block_idx,                     \* next block retrbinary reads
    written,                       \* the bytes written to destination
    nb_written_bytes,              \* acc.nb_written_bytes
    byte_count,                    \* what download returned
    \* FTPResource.recursive_download
    source_arg,                    \* the source path given by the caller
    server_tree,                   \* the server's files: absolute path -> entry type
    ftp_cwd,                       \* the session's working directory on the server
    frames,                        \* the active calls of recursive_download, outermost first
    reports,                       \* the FileTransferReports yielded, in order
    local_dirs,                    \* directories made below destination
    local_files,                   \* files opened below destination, and what was written
    retrievals                     \* the RETR commands the server served

vars == <<storage, instance_is_persistent, system_storage_is_persistent, cluster_type,
          pipeline_name, step_inputs, step_levels, pc, raised, li, si,
          execution_futures, execution_futures_dict, nDrained, retrieved, cur, curIdx,
          yielded, cluster, cluster_alive, client_opened, client_closed, submissions,
          status, started, result, completed,
          returned, cluster_configuration, dask_cfg, step_tags, requirements,
          remote_blocks, final_reply, ftp_pc, ftp_raised, block_idx, written,
          nb_written_bytes, byte_count,
          source_arg, server_tree, ftp_cwd, frames, reports, local_dirs, local_files,
          retrievals>>

downloadVars == <<remote_blocks, final_reply, block_idx, written, nb_written_bytes,
                  byte_count>>

recursiveVars == <<source_arg, server_tree, ftp_cwd, frames, reports, local_dirs,
                   local_files, retrievals>>

ftpVars == <<ftp_pc, ftp_raised, downloadVars, recursiveVars>>

unitVars == <<returned, cluster_configuration, dask_cfg, step_tags, requirements,
              ftpVars>>

inputVars == <<storage, instance_is_persistent, system_storage_is_persistent,
               cluster_type, pipeline_name, step_inputs, step_levels>>

loopVars == <<li, si, execution_futures, execution_futures_dict, submissions>>

drainVars == <<nDrained, retrieved, cur, curIdx, yielded>>

daskVars == <<status, started, result, completed>>

clusterVars == <<cluster, cluster_alive>>

(***************************************************************************)
(* The plan.  A step input carries the keys of the steps it depends on; a  *)
(* plan is leveled so that a step's dependencies lie in strictly earlier   *)
(* levels.                                                                 *)
(***************************************************************************)
RECURSIVE SortedSeq(_)
SortedSeq(S) ==
    IF S = {} THEN <<>>
    ELSE LET m == CHOOSE x \in S : \A y \in S : KeyIndex(x) <= KeyIndex(y)
         IN  <<m>> \o SortedSeq(S \ {m})

StepInput(keys) == [dependency_keys |-> keys]

\* The shapes of a step's inputs over the upstream steps D: no input, one input
\* per upstream step, or one fan-in input over all of them.
InputShapes(D) ==
    IF D = {} THEN {<<>>}
    ELSE { [i \in 1..Cardinality(D) |-> StepInput(<<SortedSeq(D)[i]>>)],
           <<StepInput(SortedSeq(D))>> }

Earlier(s) == {d \in Steps : KeyIndex(d) < KeyIndex(s)}

PlanInputs ==
    UNION { {f \in [Steps -> UNION {InputShapes(D) : D \in SUBSET Steps}] :
                \A s \in Steps : f[s] \in InputShapes(up[s])} :
            up \in {u \in [Steps -> SUBSET Steps] : \A s \in Steps : u[s] \subseteq Earlier(s)} }

SeqRange(q) == {q[i] : i \in DOMAIN q}

DependencyKeySet(inputs, s) ==
    UNION {SeqRange(inputs[s][i].dependency_keys) : i \in DOMAIN inputs[s]}

SetMax(S) == CHOOSE x \in S : \A y \in S : y <= x

RECURSIVE LevelOf(_, _)
LevelOf(inputs, s) ==
    LET D == DependencyKeySet(inputs, s)
    IN  IF D = {} THEN 0 ELSE 1 + SetMax({LevelOf(inputs, d) : d \in D})

execution_step_levels(inputs) ==
    LET top == SetMax({LevelOf(inputs, s) : s \in Steps})
    IN  [l \in 1..(top + 1) |-> SortedSeq({s \in Steps : LevelOf(inputs, s) = l - 1})]

(***************************************************************************)
(* The checks, the cluster kinds and the exceptions.                       *)
(***************************************************************************)
NoError == [type |-> "none", about |-> ""]

Error(t, a) == [type |-> t, about |-> a]

\* Lines 124-136: the first check that fails decides the exception.
StorageCheck(st, inst, sys) ==
    IF st = "missing" THEN Error("AttributeError", "storage")
    ELSE IF st = "empty" THEN Error("CheckError", "storage")
    ELSE IF ~inst THEN Error("CheckError", "instance")
    ELSE IF ~sys THEN Error("CheckError", "system_storage")
    ELSE NoError

\* Mutant: a kind that is not recognised falls back to the local cluster.
ClusterClassDefaultsToLocal(kind) ==
    CASE kind = "yarn"  -> "YarnCluster"
      [] kind = "ssh"   -> "SSHCluster"
      [] kind = "pbs"   -> "PBSCluster"
      [] kind = "kube"  -> "KubeCluster"
      [] OTHER          -> "LocalCluster"

ClusterClass(kind) ==
    CASE kind = "local" -> "LocalCluster"
      [] kind = "yarn"  -> "YarnCluster"
      [] kind = "ssh"   -> "SSHCluster"
      [] kind = "pbs"   -> "PBSCluster"
      [] kind = "kube"  -> "KubeCluster"
      [] OTHER          -> "none"

ClusterTypes == {"local", "yarn", "ssh", "pbs", "kube", "foo"}

\* Mutant: the session is closed by a call after the loops, not by a with statement.
WithExitOnReturnOnly(closed, exc) == IF exc THEN closed ELSE closed + 1

\* The with statement of line 170: Client.__exit__ runs on every way out of the block.
WithExit(closed, exc) == closed + 1

(***************************************************************************)
(* The resource-requirement tag.                                           *)
(***************************************************************************)
DASK_RESOURCE_REQUIREMENTS_KEY == "dagster-dask/resource_requirements"

NoTags == [k \in {} |-> ""]

\* A payload is the sequence of the JSON tokens of its text: the punctuation,
\* the string "GPU" and the number 1.
StringTokens == {"GPU"}

NumberTokens == {"1"}

Tokens == {"{", "}", "[", "]", ":", ","} \cup StringTokens \cup NumberTokens

\* The tags execute reads: no tag, {"GPU": 1}, and the cut-off text {"GPU": .
TagSets == {NoTags,
            (DASK_RESOURCE_REQUIREMENTS_KEY :> <<"{", "GPU", ":", "1", "}">>),
            (DASK_RESOURCE_REQUIREMENTS_KEY :> <<"{", "GPU", ":">>)}

\* The Python values JSON decodes to.
JsonNumber(text) == [type |-> "number", text |-> text]

JsonString(text) == [type |-> "string", text |-> text]

JsonArray(items) == [type |-> "array", items |-> items]

JsonObject(members) == [type |-> "object", members |-> members]

NoValue == [type |-> "none"]

Parsed(v, rest) == [ok |-> TRUE, value |-> v, rest |-> rest]

ParseError == [ok |-> FALSE, value |-> NoValue, rest |-> <<>>]

\* The JSON grammar over tokens: a value, the elements of an array after its
\* "[", the members of an object after its "{" (a repeated key keeps the last
\* value, as a dict does).
RECURSIVE ParseValue(_), ParseElements(_, _), ParseMembers(_, _)
ParseValue(ts) ==
    IF ts = <<>> THEN ParseError
    ELSE IF Head(ts) \in NumberTokens THEN Parsed(JsonNumber(Head(ts)), Tail(ts))
    ELSE IF Head(ts) \in StringTokens THEN Parsed(JsonString(Head(ts)), Tail(ts))
    ELSE IF Head(ts) = "["
         THEN IF Len(ts) >= 2 /\ ts[2] = "]"
              THEN Parsed(JsonArray(<<>>), Tail(Tail(ts)))
              ELSE ParseElements(Tail(ts), <<>>)
    ELSE IF Head(ts) = "{"
         THEN IF Len(ts) >= 2 /\ ts[2] = "}"
              THEN Parsed(JsonObject([k \in {} |-> NoValue]), Tail(Tail(ts)))
              ELSE ParseMembers(Tail(ts), [k \in {} |-> NoValue])
    ELSE ParseError

ParseElements(ts, acc) ==
    LET v == ParseValue(ts)
    IN  IF ~v.ok \/ v.rest = <<>> THEN ParseError
        ELSE IF Head(v.rest) = "]"
             THEN Parsed(JsonArray(Append(acc, v.value)), Tail(v.rest))
        ELSE IF Head(v.rest) = ","
             THEN ParseElements(Tail(v.rest), Append(acc, v.value))
        ELSE ParseError

ParseMembers(ts, acc) ==
    IF Len(ts) < 3 \/ ts[1] \notin StringTokens \/ ts[2] # ":" THEN ParseError
    ELSE LET v   == ParseValue(Tail(Tail(ts)))
             all == [k \in DOMAIN acc \cup {ts[1]} |->
                        IF k = ts[1] THEN v.value ELSE acc[k]]
         IN  IF ~v.ok \/ v.rest = <<>> THEN ParseError
             ELSE IF Head(v.rest) = "}" THEN Parsed(JsonObject(all), Tail(v.rest))
             ELSE IF Head(v.rest) = "," THEN ParseMembers(Tail(v.rest), all)
             ELSE ParseError

\* seven.json.loads: the value of the whole text, or an error.
json_loads(str) ==
    LET r == ParseValue(str)
    IN  IF r.ok /\ r.rest = <<>> THEN [ok |-> TRUE, value |-> r.value]
        ELSE [ok |-> FALSE, value |-> NoValue]

get_dask_resource_requirements(tags) ==
    IF DASK_RESOURCE_REQUIREMENTS_KEY \in DOMAIN tags
    THEN json_loads(tags[DASK_RESOURCE_REQUIREMENTS_KEY])
    ELSE [ok |-> TRUE, value |-> JsonObject([k \in {} |-> NoValue])]

(***************************************************************************)
(* The submission loop's helpers.                                          *)
(***************************************************************************)
RECURSIVE Flatten(_)
Flatten(qs) == IF qs = <<>> THEN <<>> ELSE Head(qs) \o Flatten(Tail(qs))

\* Lines 178-181: the dependency keys of all inputs, in order, repeats kept.
DependencyKeys(inputs, s) ==
    Flatten([i \in DOMAIN inputs[s] |-> inputs[s][i].dependency_keys])

\* Mutant: the submission carries no dependency futures.
NoDependencies(inputs, s, dict) == <<>>

\* Mutant: only the first input's dependency keys are looked up.
FirstInputOnly(inputs, s, dict) ==
    IF inputs[s] = <<>> THEN <<>>
    ELSE [i \in DOMAIN inputs[s][1].dependency_keys |-> dict[inputs[s][1].dependency_keys[i]]]

\* The futures handed to client.submit as `dependencies`.
Dependencies(inputs, s, dict) ==
    [i \in DOMAIN DependencyKeys(inputs, s) |-> dict[DependencyKeys(inputs, s)[i]]]

\* Mutant: the task is named after the pipeline only.
dask_task_name_of_pipeline(name, key) == <<name>>

\* Line 199.
dask_task_name(name, key) == <<name, ".", key>>

\* Mutant: the future is appended to the worklist only.
DoNotRecord(dict, key, future) == dict

\* Line 216.
RecordFuture(dict, key, future) ==
    [k \in DOMAIN dict \cup {key} |-> IF k = key THEN future ELSE dict[k]]

EmptyDict == [k \in {} |-> NoStep]

(***************************************************************************)
(* The items a future resolves to: n items, item `bad` (if any) not a      *)
(* DagsterEvent.                                                           *)
(***************************************************************************)
Items(s, n, bad) ==
    [i \in 1..n |-> [step |-> s, idx |-> i, is_event |-> (i # bad)]]

\* Mutant: the worklist is iterated as it is, each future awaited in turn.
InSubmissionOrder(futures, done, n) ==
    IF futures[n + 1] \in SeqRange(done) THEN {futures[n + 1]} ELSE {}

\* Mutant: as_completed hands out any resolved future, also one it has handed
\* out before.
AsCompletedAgain(futures, done, n) == SeqRange(done)

\* dask.distributed.as_completed: the next future, in the order they resolved.
AsCompleted(futures, done, n) ==
    IF n < Len(done) THEN {done[n + 1]} ELSE {}

\* Mutant: a failed future is taken to hold no events.
FutureResultIgnoresFailure(st, items) == [raises |-> FALSE, value |-> items]

\* future.result(): the list the future resolved to, or its exception.
FutureResult(st, items) == [raises |-> st = "error", value |-> items]

\* Mutant: only the first level is walked.
FirstLevelOnly(levels, l, s) == s = Len(levels[l])

\* Lines 174-175: the step at (l, s) is the last of the last level.
LoopDone(levels, l, s) == l = Len(levels) /\ s = Len(levels[l])

EmptyMap == [k \in {} |-> ""]

\* execute has not been called.
ExecuteIdle ==
    /\ pc = "start"
    /\ raised = NoError
    /\ li = 1
    /\ si = 1
    /\ execution_futures = <<>>
    /\ execution_futures_dict = EmptyDict
    /\ nDrained = 0
    /\ retrieved = <<>>
    /\ cur = NoStep
    /\ curIdx = 0
    /\ yielded = <<>>
    /\ cluster = "none"
    /\ cluster_alive = FALSE
    /\ client_opened = 0
    /\ client_closed = 0
    /\ submissions = <<>>
    /\ status = [s \in Steps |-> "none"]
    /\ started = {}
    /\ result = [s \in Steps |-> <<>>]
    /\ completed = <<>>

\* None of the operations checked on their own has been called.
BuildDictIdle ==
    /\ cluster_configuration = EmptyMap
    /\ dask_cfg = EmptyMap

TagsIdle ==
    /\ step_tags = NoTags
    /\ requirements = [ok |-> FALSE, value |-> NoValue]

DownloadIdle ==
    /\ remote_blocks = <<>>
    /\ final_reply = <<>>
    /\ block_idx = 1
    /\ written = <<>>
    /\ nb_written_bytes = 0
    /\ byte_count = 0

RecursiveIdle ==
    /\ source_arg = [abs |-> TRUE, parts |-> <<>>]
    /\ server_tree = (<<>> :> "dir")
    /\ ftp_cwd = <<>>
    /\ frames = <<>>
    /\ reports = <<>>
    /\ local_dirs = {}
    /\ local_files = {}
    /\ retrievals = <<>>

FtpIdle ==
    /\ ftp_pc = "idle"
    /\ ftp_raised = NoError
    /\ DownloadIdle
    /\ RecursiveIdle

UnitsIdle ==
    /\ returned = ""
    /\ BuildDictIdle
    /\ TagsIdle
    /\ FtpIdle

Init ==
    /\ storage \in {"missing", "empty", "set"}
    /\ instance_is_persistent \in BOOLEAN
    /\ system_storage_is_persistent \in BOOLEAN
    /\ cluster_type \in ClusterTypes
    /\ pipeline_name \in PipelineNames
    /\ step_inputs \in PlanInputs
    /\ step_levels = execution_step_levels(step_inputs)
    /\ ExecuteIdle
    /\ UnitsIdle

(***************************************************************************)
(* execute, lines 123-170: the checks, the cluster, the client session.    *)
(***************************************************************************)
ClientOpen == client_opened = 1 /\ client_closed = 0

\* An exception leaves execute before the with block is entered.
RaiseOutside(err) ==
    /\ pc' = "raised"
    /\ raised' = err
    /\ UNCHANGED <<client_opened, client_closed>>

\* An exception leaves execute from inside the with block.
RaiseInside(err) ==
    /\ pc' = "raised"
    /\ raised' = err
    /\ client_closed' = WithExit(client_closed, TRUE)
    /\ UNCHANGED client_opened

CheckStorage ==
    /\ pc = "start"
    /\ LET err == StorageCheck(storage, instance_is_persistent, system_storage_is_persistent)
       IN  IF err = NoError
           THEN pc' = "provision" /\ UNCHANGED <<raised, client_opened, client_closed>>
           ELSE RaiseOutside(err)
    /\ UNCHANGED <<unitVars, inputVars, loopVars, drainVars, clusterVars, daskVars>>

\* Lines 144-164: the constructor of the kind's cluster class returns.
ProvisionCluster ==
    /\ pc = "provision"
    /\ ClusterClass(cluster_type) # "none"
    /\ cluster' = ClusterClass(cluster_type)
    /\ cluster_alive' = TRUE
    /\ pc' = "client"
    /\ UNCHANGED <<unitVars, inputVars, raised, loopVars, drainVars, client_opened, client_closed,
                   daskVars>>

\* Lines 144-164: the constructor raises, no cluster is created.
ProvisionFails ==
    /\ pc = "provision"
    /\ ClusterClass(cluster_type) # "none"
    /\ RaiseOutside(Error("ProvisionError", cluster_type))
    /\ UNCHANGED <<unitVars, inputVars, loopVars, drainVars, clusterVars, daskVars>>

\* Lines 165-168.
UnknownClusterType ==
    /\ pc = "provision"
    /\ ClusterClass(cluster_type) = "none"
    /\ RaiseOutside(Error("ValueError", cluster_type))
    /\ UNCHANGED <<unitVars, inputVars, loopVars, drainVars, clusterVars, daskVars>>

\* Line 170: Client(cluster) and __enter__.
OpenClient ==
    /\ pc = "client"
    /\ client_opened' = client_opened + 1
    /\ pc' = "submit"
    /\ UNCHANGED <<unitVars, inputVars, raised, loopVars, drainVars, clusterVars, client_closed,
                   daskVars>>

\* Line 170: Client(cluster) raises; the with block is never entered.
OpenClientFails ==
    /\ pc = "client"
    /\ RaiseOutside(Error("ClientError", cluster))
    /\ UNCHANGED <<unitVars, inputVars, loopVars, drainVars, clusterVars, daskVars>>

(***************************************************************************)
(* execute, lines 174-216: one pass of the submission loop's body.         *)
(***************************************************************************)
\* What a client.submit call hands to the scheduler, and the future it returns.
Submission(step, deps) ==
    [key          |-> dask_task_name(pipeline_name, step),
     step         |-> step,
     future       |-> step,
     dependencies |-> deps]

SubmitStep ==
    /\ pc = "submit"
    /\ LET step == step_levels[li][si]
           keys == DependencyKeys(step_inputs, step)
           last == LoopDone(step_levels, li, si)
       IN  IF \E i \in DOMAIN keys : keys[i] \notin DOMAIN execution_futures_dict
           THEN /\ RaiseInside(Error("KeyError", step))
                /\ UNCHANGED <<loopVars, status>>
           ELSE \E tags \in TagSets :
                LET req == get_dask_resource_requirements(tags)
                    deps == Dependencies(step_inputs, step, execution_futures_dict)
                IN  IF ~req.ok
                    THEN /\ RaiseInside(Error("JSONDecodeError", step))
                         /\ UNCHANGED <<loopVars, status>>
                    ELSE /\ submissions' = Append(submissions, Submission(step, deps))
                         /\ status' = [status EXCEPT ![step] =
                                          IF @ = "none" THEN "pending" ELSE @]
                         /\ execution_futures' = Append(execution_futures, step)
                         /\ execution_futures_dict' =
                                RecordFuture(execution_futures_dict, step, step)
                         /\ li' = IF si < Len(step_levels[li]) THEN li ELSE li + 1
                         /\ si' = IF si < Len(step_levels[li]) THEN si + 1 ELSE 1
                         /\ pc' = IF last THEN "drain" ELSE "submit"
                         /\ UNCHANGED <<raised, client_opened, client_closed>>
    /\ UNCHANGED <<unitVars, inputVars, drainVars, clusterVars, started, result, completed>>

(***************************************************************************)
(* The Dask scheduler and its workers, while the client session is open.   *)
(* A task whose arguments hold futures is started once those futures have  *)
(* finished, and fails without starting when one of them failed.           *)
(***************************************************************************)
TaskDependencies(s) ==
    LET i == CHOOSE j \in DOMAIN submissions : submissions[j].future = s
    IN  SeqRange(submissions[i].dependencies)

Resolve(s, st, items) ==
    /\ status' = [status EXCEPT ![s] = st]
    /\ result' = [result EXCEPT ![s] = items]
    /\ completed' = Append(completed, s)

WorkerStart(s) ==
    /\ ClientOpen
    /\ status[s] = "pending"
    /\ s \notin started
    /\ \A d \in TaskDependencies(s) : status[d] = "finished"
    /\ started' = started \cup {s}
    /\ UNCHANGED <<unitVars, inputVars, pc, raised, loopVars, drainVars, clusterVars,
                   client_opened, client_closed, status, result, completed>>

\* query_on_dask_worker returns the step's events.
WorkerFinish(s) ==
    /\ ClientOpen
    /\ status[s] = "pending"
    /\ s \in started
    /\ \E n \in 0..MaxEvents : \E bad \in 0..n : Resolve(s, "finished", Items(s, n, bad))
    /\ UNCHANGED <<unitVars, inputVars, pc, raised, loopVars, drainVars, clusterVars,
                   client_opened, client_closed, started>>

\* query_on_dask_worker raises.
WorkerRaise(s) ==
    /\ ClientOpen
    /\ status[s] = "pending"
    /\ s \in started
    /\ Resolve(s, "error", <<>>)
    /\ UNCHANGED <<unitVars, inputVars, pc, raised, loopVars, drainVars, clusterVars,
                   client_opened, client_closed, started>>

\* A dependency failed: the task fails too, its work never starts.
DependencyFailed(s) ==
    /\ ClientOpen
    /\ status[s] = "pending"
    /\ s \notin started
    /\ \E d \in TaskDependencies(s) : status[d] = "error"
    /\ Resolve(s, "error", <<>>)
    /\ UNCHANGED <<unitVars, inputVars, pc, raised, loopVars, drainVars, clusterVars,
                   client_opened, client_closed, started>>

(***************************************************************************)
(* execute, lines 220-224: the aggregator.                                 *)
(***************************************************************************)
\* future.result() of the next future as_completed hands out.
NextFuture ==
    /\ pc = "drain"
    /\ nDrained < Len(execution_futures)
    /\ \E f \in AsCompleted(execution_futures, completed, nDrained) :
          /\ nDrained' = nDrained + 1
          /\ retrieved' = Append(retrieved, f)
          /\ LET r == FutureResult(status[f], result[f])
             IN  IF r.raises
                 THEN /\ RaiseInside(Error("StepFailure", f))
                      /\ UNCHANGED <<cur, curIdx>>
                 ELSE /\ cur' = IF r.value = <<>> THEN NoStep ELSE f
                      /\ curIdx' = IF r.value = <<>> THEN 0 ELSE 1
                      /\ pc' = IF r.value = <<>> THEN "drain" ELSE "yield"
                      /\ UNCHANGED <<raised, client_opened, client_closed>>
    /\ UNCHANGED <<unitVars, inputVars, loopVars, yielded, clusterVars, daskVars>>

\* Lines 222-224: check.inst, then yield.
YieldEvent ==
    /\ pc = "yield"
    /\ LET step_event == result[cur][curIdx]
           more == curIdx < Len(result[cur])
       IN  IF ~step_event.is_event
           THEN /\ RaiseInside(Error("CheckError", "step_event"))
                /\ UNCHANGED <<cur, curIdx, yielded>>
           ELSE /\ yielded' = Append(yielded, step_event)
                /\ cur' = IF more THEN cur ELSE NoStep
                /\ curIdx' = IF more THEN curIdx + 1 ELSE 0
                /\ pc' = IF more THEN "yield" ELSE "drain"
                /\ UNCHANGED <<raised, client_opened, client_closed>>
    /\ UNCHANGED <<unitVars, inputVars, loopVars, nDrained, retrieved, clusterVars,
                   daskVars>>

\* as_completed is exhausted: the with block ends and execute returns.
Finish ==
    /\ pc = "drain"
    /\ nDrained = Len(execution_futures)
    /\ pc' = "done"
    /\ client_closed' = WithExit(client_closed, FALSE)
    /\ UNCHANGED <<unitVars, inputVars, raised, loopVars, drainVars, clusterVars, client_opened,
                   daskVars>>

Next ==
    \/ CheckStorage
    \/ ProvisionCluster
    \/ ProvisionFails
    \/ UnknownClusterType
    \/ OpenClient
    \/ OpenClientFails
    \/ SubmitStep
    \/ \E s \in Steps : WorkerStart(s)
    \/ \E s \in Steps : WorkerFinish(s)
    \/ \E s \in Steps : WorkerRaise(s)
    \/ \E s \in Steps : DependencyFailed(s)
    \/ NextFuture
    \/ YieldEvent
    \/ Finish

Spec == Init /\ [][Next]_vars

Terminated == pc \in {"done", "raised"}

(***************************************************************************)
(* Properties of execute.                                                  *)
(***************************************************************************)
PlanSteps == SeqRange(Flatten(step_levels))

Resolved(s) == status[s] \in {"finished", "error"}

UnknownKind == cluster_type \notin {"local", "yarn", "ssh", "pbs", "kube"}

\* execute has ended on an exception of the aggregator: a failed future, or an
\* item that is not a DagsterEvent.
AggregatorRaised ==
    /\ pc = "raised"
    /\ raised.type = "StepFailure" \/ raised = Error("CheckError", "step_event")

\* The items of the futures q[1..n], in that order.
RECURSIVE ResultsOf(_, _)
ResultsOf(q, n) == IF n = 0 THEN <<>> ELSE ResultsOf(q, n - 1) \o result[q[n]]

Occurrences(e) == Cardinality({i \in DOMAIN yielded : yielded[i] = e})

\* C1: the scheduler never starts the work of a step before the futures of all
\* the dependency steps the plan declares for it have resolved, also while the
\* submission loop is still running.
C1_StartAfterDependencies ==
    \A s \in started : \A d \in DependencyKeySet(step_inputs, s) : Resolved(d)

\* A step with declared dependencies is at work while later steps are still
\* being submitted.
C1_Witness ==
    /\ pc = "submit"
    /\ \E s \in started : DependencyKeySet(step_inputs, s) # {}

\* C2: when client.submit creates a step's future, every dependency key of the
\* step is a key of execution_futures_dict: the lookup of line 181 never fails,
\* and the steps are submitted in level order.
C2_DependenciesSubmittedFirst ==
    /\ raised.type # "KeyError"
    /\ pc = "submit" =>
          SeqRange(DependencyKeys(step_inputs, step_levels[li][si]))
              \subseteq DOMAIN execution_futures_dict
    /\ \A i \in DOMAIN submissions :
          DependencyKeySet(step_inputs, submissions[i].step)
              \subseteq {submissions[j].step : j \in 1..(i - 1)}
    /\ \A i, j \in DOMAIN submissions :
          i < j => LevelOf(step_inputs, submissions[i].step)
                       <= LevelOf(step_inputs, submissions[j].step)

\* The last step of a three-level plan has been submitted with its dependency.
C2_Witness ==
    /\ Len(submissions) = Len(StepKeys)
    /\ Len(step_levels) = 3
    /\ submissions[Len(submissions)].dependencies # <<>>

\* C3: once the submission loop has run to its end, the keys of
\* execution_futures_dict are the step keys of the plan and every step was
\* handed to client.submit exactly once, also after a step has failed.
C3_EachStepSubmittedOnce ==
    (pc \in {"drain", "yield", "done"} \/ AggregatorRaised)
    => /\ DOMAIN execution_futures_dict = PlanSteps
       /\ Len(execution_futures) = Cardinality(PlanSteps)
       /\ \A s \in PlanSteps :
             /\ Cardinality({i \in DOMAIN submissions : submissions[i].step = s}) = 1
             /\ Cardinality({i \in DOMAIN execution_futures :
                                execution_futures[i] = execution_futures_dict[s]}) = 1

\* The run has ended on a failed step.
C3_Witness ==
    /\ pc = "raised"
    /\ raised.type = "StepFailure"
    /\ Len(submissions) = Len(StepKeys)

\* C4: when the aggregator retrieves a future that resolved to a failure, execute
\* raises; the events yielded so far are those of the futures drained before it,
\* no event of the failed step or of a future that resolved later is in the
\* stream, and a run in which a future failed never returns normally.
C4_FailureStopsDraining ==
    /\ (pc = "raised" /\ raised.type = "StepFailure") =>
          /\ status[raised.about] = "error"
          /\ completed[nDrained] = raised.about
          /\ yielded = ResultsOf(completed, nDrained - 1)
          /\ \A i \in DOMAIN yielded : \A k \in nDrained..Len(completed) :
                yielded[i].step # completed[k]
    /\ pc = "done" => \A s \in Steps : status[s] # "error"

\* A step failed after the events of another step had been yielded.
C4_Witness ==
    /\ pc = "raised"
    /\ raised.type = "StepFailure"
    /\ yielded # <<>>
    /\ Len(completed) > nDrained

\* C5: the stream is, at every moment, the results of the drained futures in
\* the order in which they resolved, each result in its own order; when execute
\* returns (no future failed), every event of every step is in it exactly once.
C5_EventsInCompletionOrder ==
    /\ pc \in {"drain", "done"} => yielded = ResultsOf(completed, nDrained)
    /\ pc = "yield" =>
          /\ cur = completed[nDrained]
          /\ yielded = ResultsOf(completed, nDrained - 1)
                           \o SubSeq(result[cur], 1, curIdx - 1)
    /\ pc = "done" =>
          /\ nDrained = Len(completed)
          /\ SeqRange(completed) = PlanSteps
          /\ \A s \in PlanSteps : \A k \in DOMAIN result[s] :
                Occurrences(result[s][k]) = 1

\* A run has returned whose futures resolved in another order than they were
\* submitted in, with a step of several events.
C5_Witness ==
    /\ pc = "done"
    /\ completed # execution_futures
    /\ \E s \in Steps : Len(result[s]) >= 2
    /\ \A s \in Steps : result[s] # <<>>

\* C6: no event of a step is yielded before all events of the steps it declares
\* a dependency on.
C6_DependenciesYieldedFirst ==
    \A i \in DOMAIN yielded :
        \A d \in DependencyKeySet(step_inputs, yielded[i].step) :
            /\ status[d] = "finished"
            /\ \A k \in DOMAIN result[d] :
                  \E j \in 1..(i - 1) : yielded[j] = result[d][k]

\* C depends on A and B; B's event was yielded before A's, C's after both.
C6_Witness ==
    /\ DependencyKeySet(step_inputs, "C") = {"A", "B"}
    /\ \E i, j, k \in DOMAIN yielded :
          /\ i < j /\ j < k
          /\ yielded[i].step = "B" /\ yielded[j].step = "A" /\ yielded[k].step = "C"

\* C7: the client session is entered at most once and before any submission,
\* stays open while execute submits and drains, and has been left exactly once
\* when execute ends, however it ends.
C7_ClientReleasedOnce ==
    /\ client_opened <= 1
    /\ client_closed <= client_opened
    /\ submissions # <<>> => client_opened = 1
    /\ pc \in {"submit", "drain", "yield"} => ClientOpen
    /\ Terminated => client_closed = client_opened
    /\ (\/ pc = "done"
        \/ AggregatorRaised
        \/ pc = "raised" /\ raised.type \in {"JSONDecodeError", "KeyError"})
       => client_opened = 1 /\ client_closed = 1

\* The submission loop raised after a first step had been submitted.
C7_Witness ==
    /\ pc = "raised"
    /\ raised.type = "JSONDecodeError"
    /\ submissions # <<>>
    /\ client_closed = 1

\* C8: no ended run leaves a provisioned cluster alive.
C8_ClusterTornDown == Terminated => ~cluster_alive

\* C9: with the storage configuration missing or empty, the instance not
\* persistent or the system storage in memory, execute ends on an invariant
\* failure, and no cluster was provisioned and no step submitted.
C9_InvariantFailureFirst ==
    (/\ Terminated
     /\ \/ storage \in {"missing", "empty"}
        \/ ~instance_is_persistent
        \/ ~system_storage_is_persistent)
    => /\ pc = "raised"
       /\ raised.type = "CheckError"
       /\ cluster = "none"
       /\ submissions = <<>>

\* C10: for a cluster kind that is none of local, yarn, ssh, pbs, kube, no
\* cluster is provisioned, no client session opened and no step submitted, and
\* execute, once past the storage checks, ends on a ValueError naming the kind.
C10_UnknownKindRaises ==
    UnknownKind =>
        /\ cluster = "none"
        /\ ~cluster_alive
        /\ client_opened = 0
        /\ submissions = <<>>
        /\ pc \in {"start", "provision", "raised"}
        /\ (Terminated /\ StorageCheck(storage, instance_is_persistent,
                                       system_storage_is_persistent) = NoError)
           => raised = Error("ValueError", cluster_type)

\* execute has raised the ValueError for the kind foo.
C10_Witness ==
    /\ cluster_type = "foo"
    /\ pc = "raised"
    /\ raised = Error("ValueError", "foo")

\* C11: a malformed resource-requirement tag ends execute on a configuration
\* error before a cluster is provisioned and before any step is submitted.
C11_MalformedTagBeforeProvisioning ==
    (pc = "raised" /\ raised.type = "JSONDecodeError")
    => /\ cluster = "none"
       /\ ~cluster_alive
       /\ client_opened = 0
       /\ submissions = <<>>

\* A step execute takes on its own, without a future having to resolve.
ExecuteStep ==
    \/ CheckStorage
    \/ ProvisionCluster
    \/ ProvisionFails
    \/ UnknownClusterType
    \/ OpenClient
    \/ OpenClientFails
    \/ SubmitStep
    \/ YieldEvent

\* C16: the aggregator retrieves no result of a future before every step of
\* every level of the plan has been submitted; until it drains, and between two
\* retrievals, execute can always take its next step whatever the futures'
\* states are, so that draining is the only point where it waits.
C16_SubmitAllBeforeDraining ==
    /\ (nDrained > 0 \/ pc \in {"drain", "yield"})
       => /\ PlanSteps \subseteq DOMAIN execution_futures_dict
          /\ PlanSteps \subseteq SeqRange(execution_futures)
    /\ pc \notin {"drain", "done", "raised"} => ENABLED ExecuteStep

\* The aggregator has retrieved its first result, of a plan of several levels
\* whose last level was submitted while no step had resolved.
C16_Witness ==
    /\ nDrained = 1
    /\ Len(step_levels) > 1
    /\ PlanSteps \subseteq DOMAIN execution_futures_dict
    /\ \E s \in PlanSteps : status[s] = "pending"

\* The number of times result() was called on the future f.
Retrievals(f) == Cardinality({i \in DOMAIN retrieved : retrieved[i] = f})

\* C18 as stated: when execute has ended, every future created in the
\* submission loop has had its result retrieved exactly once.
C18_AllRetrievedAtEnd ==
    Terminated => \A f \in SeqRange(execution_futures) : Retrievals(f) = 1

\* C18, amended: no future is ever retrieved twice and only futures of the
\* submission loop are retrieved; when execute returns, every future has been
\* retrieved exactly once; when execute ends on an exception, the futures
\* as_completed had not handed out yet are left unretrieved.
C18_RetrievedOnceOnReturn ==
    /\ \A f \in Steps : Retrievals(f) <= 1
    /\ SeqRange(retrieved) \subseteq SeqRange(execution_futures)
    /\ Len(retrieved) = nDrained
    /\ pc = "done" => \A f \in SeqRange(execution_futures) : Retrievals(f) = 1
    /\ pc = "raised" =>
          \A f \in SeqRange(execution_futures) :
              Retrievals(f) = IF f \in SeqRange(SubSeq(completed, 1, nDrained)) THEN 1 ELSE 0

\* execute has returned after retrieving the results of three futures.
C18_Witness ==
    /\ pc = "done"
    /\ Len(execution_futures) = 3
    /\ Len(retrieved) = 3

\* C19: every submission is keyed '<pipeline name>.<step key>', a value that
\* depends on the pipeline's name and the step's key only, and no two
\* submissions of a run carry the same key.
C19_TaskNamesUnique ==
    /\ \A i \in DOMAIN submissions :
          submissions[i].key = <<pipeline_name, ".", submissions[i].step>>
    /\ \A i, j \in DOMAIN submissions :
          submissions[i].key = submissions[j].key => i = j

\* The three steps of a plan have been submitted.
C19_Witness ==
    /\ Len(submissions) = 3
    /\ {submissions[i].step : i \in DOMAIN submissions} = Steps

(***************************************************************************)
(* execute over plans in which several inputs of one step name the same    *)
(* upstream step: A and B have no inputs, C has one or two inputs, each    *)
(* depending on A, on B or on both.                                        *)
(***************************************************************************)
FanInKeys == {<<"A">>, <<"B">>, <<"A", "B">>}

FanInShapes ==
    {<<StepInput(k)>> : k \in FanInKeys}
        \cup {<<StepInput(k1), StepInput(k2)>> : k1 \in FanInKeys, k2 \in FanInKeys}

FanInPlans == {[s \in Steps |-> IF s = "C" THEN shape ELSE <<>>] : shape \in FanInShapes}

FanInInit ==
    /\ storage \in {"missing", "empty", "set"}
    /\ instance_is_persistent = TRUE
    /\ system_storage_is_persistent = TRUE
    /\ cluster_type \in ClusterTypes
    /\ pipeline_name \in PipelineNames
    /\ step_inputs \in FanInPlans
    /\ step_levels = execution_step_levels(step_inputs)
    /\ ExecuteIdle
    /\ UnitsIdle

FanInSpec == FanInInit /\ [][Next]_vars

\* C17: the dependency handles of a submission are the futures of the union of
\* the dependency keys of the step's inputs: one handle per distinct dependency
\* step, none of another step, none repeated when two inputs depend on the
\* same step, and the empty list for a step without dependencies.
C17_DependenciesAreUnion ==
    \A i \in DOMAIN submissions :
        LET deps == submissions[i].dependencies
            D    == DependencyKeySet(step_inputs, submissions[i].step)
        IN  /\ SeqRange(deps) = {execution_futures_dict[d] : d \in D}
            /\ Len(deps) = Cardinality(D)
            /\ D = {} => deps = <<>>

(***************************************************************************)
(* DaskExecutor.build_dict, lines 226-257, called on its own over every    *)
(* cluster kind and a set of user configurations.                          *)
(***************************************************************************)
\* The executor's fixed inputs and plan: execute is not called.
ExecuteNotCalled ==
    /\ storage = "set"
    /\ instance_is_persistent = TRUE
    /\ system_storage_is_persistent = TRUE
    /\ step_inputs = [s \in Steps |-> <<>>]
    /\ step_levels = execution_step_levels(step_inputs)
    /\ ExecuteIdle

executeVars == <<storage, instance_is_persistent, system_storage_is_persistent,
                 step_inputs, step_levels, pc, raised, li, si, execution_futures,
                 execution_futures_dict, nDrained, retrieved, cur, curIdx, yielded,
                 cluster,
                 cluster_alive, client_opened, client_closed, submissions, status,
                 started, result, completed>>

\* The single-worker-thread constraint of line 255.
OneThread == "1"

\* The values a user may give each option, written as text.
OptionValues ==
    [name               |-> {"mycluster"},
     address            |-> {"127.0.0.1:8786"},
     threads_per_worker |-> {"1", "4"},
     n_workers          |-> {"2"}]

OptionKeys == DOMAIN OptionValues

Configurations ==
    UNION { {c \in [K -> UNION {OptionValues[k] : k \in K}] :
                \A k \in K : c[k] \in OptionValues[k]} : K \in SUBSET OptionKeys }

\* dask_cfg[k] = v for the pairs of `over`, the other keys as in `cfg`.
Update(cfg, over) ==
    [k \in DOMAIN cfg \cup DOMAIN over |-> IF k \in DOMAIN over THEN over[k] ELSE cfg[k]]

\* Mutant: the cluster name is set after the user's options were copied.
build_dict_name_last(kind, config, name) ==
    LET named  == IF kind \in {"yarn", "kube", "pbs"}
                  THEN Update(config, ("name" :> name)) ELSE config
    IN  IF kind = "local" /\ "address" \notin DOMAIN named
        THEN Update(named, ("threads_per_worker" :> OneThread))
        ELSE named

\* Mutant: the local kind gets its default whether or not an address is set.
build_dict_ignores_address(kind, config, name) ==
    LET base   == IF kind \in {"yarn", "kube", "pbs"} THEN ("name" :> name) ELSE EmptyMap
        merged == Update(base, config)
    IN  IF kind = "local"
        THEN Update(merged, ("threads_per_worker" :> OneThread))
        ELSE merged

build_dict(kind, config, name) ==
    LET base   == IF kind \in {"yarn", "kube", "pbs"} THEN ("name" :> name) ELSE EmptyMap
        merged == Update(base, config)
    IN  IF kind = "local" /\ "address" \notin DOMAIN merged
        THEN Update(merged, ("threads_per_worker" :> OneThread))
        ELSE merged

BuildDictInit ==
    /\ ExecuteNotCalled
    /\ cluster_type \in ClusterTypes
    /\ pipeline_name \in PipelineNames
    /\ cluster_configuration \in Configurations
    /\ returned = ""
    /\ dask_cfg = EmptyMap
    /\ TagsIdle
    /\ FtpIdle

CallBuildDict ==
    /\ returned = ""
    /\ dask_cfg' = build_dict(cluster_type, cluster_configuration, pipeline_name)
    /\ returned' = "build_dict"
    /\ UNCHANGED <<executeVars, cluster_type, pipeline_name, cluster_configuration>>
    /\ UNCHANGED <<step_tags, requirements, ftpVars>>

BuildDictNext == CallBuildDict

BuildDictSpec == BuildDictInit /\ [][BuildDictNext]_vars

\* C12 as stated: every key the user supplied has the user's value in the
\* mapping build_dict returns.
C12_UserValuesKept ==
    returned = "build_dict" =>
        \A k \in DOMAIN cluster_configuration :
            k \in DOMAIN dask_cfg /\ dask_cfg[k] = cluster_configuration[k]

ForcedKey(k) ==
    /\ k = "threads_per_worker"
    /\ cluster_type = "local"
    /\ "address" \notin DOMAIN cluster_configuration

\* C12, amended: every key the user supplied has the user's value in the mapping
\* build_dict returns (the cluster name never replaces a user's name), except
\* threads_per_worker for the local kind without an address, which is 1.
C12_UserValuesKeptUnlessForced ==
    returned = "build_dict" =>
        \A k \in DOMAIN cluster_configuration :
            /\ k \in DOMAIN dask_cfg
            /\ dask_cfg[k] = IF ForcedKey(k) THEN OneThread ELSE cluster_configuration[k]

\* A kind with a computed name was given a name by the user.
C12_Witness ==
    /\ returned = "build_dict"
    /\ cluster_type = "yarn"
    /\ "name" \in DOMAIN cluster_configuration
    /\ dask_cfg["name"] = "mycluster"

\* C13: for the local kind the returned mapping holds threads_per_worker = 1
\* when the options hold no address and is the user's options, nothing added,
\* when they do; for the other kinds build_dict never adds threads_per_worker.
C13_LocalThreadsConstraint ==
    returned = "build_dict" =>
        /\ (cluster_type = "local" /\ "address" \notin DOMAIN cluster_configuration)
           => /\ "threads_per_worker" \in DOMAIN dask_cfg
              /\ dask_cfg["threads_per_worker"] = OneThread
        /\ (cluster_type = "local" /\ "address" \in DOMAIN cluster_configuration)
           => dask_cfg = cluster_configuration
        /\ cluster_type # "local"
           => /\ ("threads_per_worker" \in DOMAIN dask_cfg)
                     = ("threads_per_worker" \in DOMAIN cluster_configuration)
              /\ "threads_per_worker" \in DOMAIN dask_cfg
                 => dask_cfg["threads_per_worker"]
                        = cluster_configuration["threads_per_worker"]

\* A local configuration with an address and four threads per worker came back
\* as it was given.
C13_Witness ==
    /\ returned = "build_dict"
    /\ cluster_type = "local"
    /\ "address" \in DOMAIN cluster_configuration
    /\ "threads_per_worker" \in DOMAIN dask_cfg
    /\ dask_cfg["threads_per_worker"] = "4"

---------------------------------------------------------------------------
\* get_dask_resource_requirements on its own: any tag payload of at most
\* MaxTokens tokens, or no tag.

MaxTokens == 5

RECURSIVE TokenSeqs(_)
TokenSeqs(n) ==
    IF n = 0 THEN {<<>>}
    ELSE LET shorter == TokenSeqs(n - 1)
         IN  shorter \cup {Append(p, tok) : p \in shorter, tok \in Tokens}

Payloads == TokenSeqs(MaxTokens)

TagsInit ==
    /\ ExecuteNotCalled
    /\ cluster_type = "local"
    /\ pipeline_name \in PipelineNames
    /\ returned = ""
    /\ BuildDictIdle
    /\ step_tags \in {NoTags} \cup {(DASK_RESOURCE_REQUIREMENTS_KEY :> p) : p \in Payloads}
    /\ requirements = [ok |-> FALSE, value |-> NoValue]
    /\ FtpIdle

CallGetRequirements ==
    /\ returned = ""
    /\ requirements' = get_dask_resource_requirements(step_tags)
    /\ returned' = "get_dask_resource_requirements"
    /\ UNCHANGED <<executeVars, cluster_type, pipeline_name, step_tags>>
    /\ UNCHANGED <<cluster_configuration, dask_cfg, ftpVars>>

TagsNext == CallGetRequirements

TagsSpec == TagsInit /\ [][TagsNext]_vars

\* A mapping from resource label to quantity.
IsResourceMapping(v) ==
    /\ v.type = "object"
    /\ \A k \in DOMAIN v.members : v.members[k].type = "number"

\* C14: get_dask_resource_requirements returns the empty mapping when the tag
\* is absent, exactly the value decoded from the payload when it is present,
\* fails when the payload is not valid JSON, and whatever it returns is a
\* mapping from resource label to quantity.
C14_RequirementsAreMapping ==
    returned = "get_dask_resource_requirements" =>
        /\ DASK_RESOURCE_REQUIREMENTS_KEY \notin DOMAIN step_tags
           => requirements = [ok |-> TRUE, value |-> JsonObject([k \in {} |-> NoValue])]
        /\ DASK_RESOURCE_REQUIREMENTS_KEY \in DOMAIN step_tags
           => requirements = json_loads(step_tags[DASK_RESOURCE_REQUIREMENTS_KEY])
        /\ requirements.ok => IsResourceMapping(requirements.value)

---------------------------------------------------------------------------
\* FTPResource.download: one binary transfer.  The server sends the file as a
\* sequence of blocks and closes the transfer with a reply; ftplib's
\* retrbinary hands every block to the callback and then returns the reply,
\* or raises for a reply that is not positive.

MaxBlocks == 2

MaxBlockSize == 2

Bytes == {"x", "y"}

RECURSIVE SeqsUpTo(_, _)
SeqsUpTo(S, n) ==
    IF n = 0 THEN {<<>>}
    ELSE LET shorter == SeqsUpTo(S, n - 1)
         IN  shorter \cup {Append(q, e) : q \in shorter, e \in S}

Blocks == SeqsUpTo(Bytes, MaxBlockSize) \ {<<>>}

\* Replies, as the characters of their first line.
Replies == {<<"2", "2", "6", " ">>, <<"2", "2", "6", "-">>, <<"2", "5", "0", " ">>,
            <<"4", "2", "6", " ">>, <<"5", "5", "0", " ">>}

\* str.startswith
startswith(str, prefix) ==
    /\ Len(str) >= Len(prefix)
    /\ SubSeq(str, 1, Len(prefix)) = prefix

\* ftplib's voidresp at the end of retrbinary: the exception it raises for the
\* reply, "none" when it returns the reply.
voidresp(reply) ==
    CASE reply[1] = "2"          -> "none"
      [] reply[1] \in {"1", "3"} -> "error_reply"
      [] reply[1] = "4"          -> "error_temp"
      [] reply[1] = "5"          -> "error_perm"
      [] OTHER                   -> "error_proto"

\* _ByteAccumulator.write_and_count on a stream that writes all it is given.
write_and_count(dest, nb, data) ==
    [dest |-> dest \o data, nb_written_bytes |-> nb + Len(data)]

DownloadInit ==
    /\ ExecuteNotCalled
    /\ cluster_type = "local"
    /\ pipeline_name \in PipelineNames
    /\ returned = ""
    /\ BuildDictIdle
    /\ TagsIdle
    /\ remote_blocks \in SeqsUpTo(Blocks, MaxBlocks)
    /\ final_reply \in Replies
    /\ ftp_pc = "idle"
    /\ ftp_raised = NoError
    /\ block_idx = 1
    /\ written = <<>>
    /\ nb_written_bytes = 0
    /\ byte_count = 0
    /\ RecursiveIdle

downloadUnchanged ==
    UNCHANGED <<executeVars, cluster_type, pipeline_name, cluster_configuration,
                dask_cfg, step_tags, requirements, remote_blocks, final_reply,
                recursiveVars>>

\* acc = _ByteAccumulator(destination); retrbinary sends RETR.
Retr ==
    /\ ftp_pc = "idle"
    /\ ftp_pc' = "transfer"
    /\ UNCHANGED <<returned, ftp_raised, block_idx, written, nb_written_bytes, byte_count>>
    /\ downloadUnchanged

\* retrbinary reads the next block and calls acc.write_and_count(data).
ReceiveBlock ==
    /\ ftp_pc = "transfer"
    /\ block_idx <= Len(remote_blocks)
    /\ LET acc == write_and_count(written, nb_written_bytes, remote_blocks[block_idx])
       IN  /\ written' = acc.dest
           /\ nb_written_bytes' = acc.nb_written_bytes
    /\ block_idx' = block_idx + 1
    /\ UNCHANGED <<returned, ftp_pc, ftp_raised, byte_count>>
    /\ downloadUnchanged

\* The data connection is closed; retrbinary raises for the final reply.
RetrbinaryRaises ==
    /\ ftp_pc = "transfer"
    /\ block_idx > Len(remote_blocks)
    /\ voidresp(final_reply) # "none"
    /\ ftp_pc' = "raised"
    /\ ftp_raised' = Error(voidresp(final_reply), "download")
    /\ UNCHANGED <<returned, block_idx, written, nb_written_bytes, byte_count>>
    /\ downloadUnchanged

\* retrbinary returns a reply that does not start with "226 ".
DownloadRaises ==
    /\ ftp_pc = "transfer"
    /\ block_idx > Len(remote_blocks)
    /\ voidresp(final_reply) = "none"
    /\ ~startswith(final_reply, <<"2", "2", "6", " ">>)
    /\ ftp_pc' = "raised"
    /\ ftp_raised' = Error("RuntimeError", "download")
    /\ UNCHANGED <<returned, block_idx, written, nb_written_bytes, byte_count>>
    /\ downloadUnchanged

DownloadReturns ==
    /\ ftp_pc = "transfer"
    /\ block_idx > Len(remote_blocks)
    /\ voidresp(final_reply) = "none"
    /\ startswith(final_reply, <<"2", "2", "6", " ">>)
    /\ ftp_pc' = "done"
    /\ byte_count' = nb_written_bytes
    /\ returned' = "download"
    /\ UNCHANGED <<ftp_raised, block_idx, written, nb_written_bytes>>
    /\ downloadUnchanged

DownloadNext ==
    \/ Retr
    \/ ReceiveBlock
    \/ RetrbinaryRaises
    \/ DownloadRaises
    \/ DownloadReturns

DownloadSpec == DownloadInit /\ [][DownloadNext]_vars

\* C15: download writes to destination exactly the bytes of the remote file in
\* the order the server sent them and returns the number of bytes written;
\* when the transfer's final reply does not start with "226 " it raises
\* RuntimeError.
C15_DownloadContract ==
    /\ returned = "download"
       => /\ written = Flatten(remote_blocks)
          /\ byte_count = Len(written)
    /\ (ftp_pc \in {"done", "raised"} /\ ~startswith(final_reply, <<"2", "2", "6", " ">>))
       => ftp_raised.type = "RuntimeError"

---------------------------------------------------------------------------
\* FTPResource.recursive_download.  The server holds a tree of entries; a path
\* is absolute or relative, and the server resolves a relative path against
\* the session's working directory at the time it receives the command.

Path(abs, parts) == [abs |-> abs, parts |-> parts]

\* f"{source}/{file_name}"
PathJoin(path, name) == Path(path.abs, Append(path.parts, name))

\* The absolute path the server reads `path` as.
ResolvePath(cwd, path) == IF path.abs THEN path.parts ELSE cwd \o path.parts

\* The entries a server may hold below /data, and their types.
CandidateEntries ==
    (<<"data", "f">> :> "file") @@ (<<"data", "link">> :> "OS.unix=symlink")
        @@ (<<"data", "sub">> :> "dir") @@ (<<"data", "sub", "g">> :> "file")
        @@ (<<"data", "data">> :> "dir") @@ (<<"data", "data", "f">> :> "file")

Parent(p) == SubSeq(p, 1, Len(p) - 1)

ServerTrees ==
    {[p \in S \cup {<<>>, <<"data">>} |->
          IF p \in S THEN CandidateEntries[p] ELSE "dir"] :
       S \in {X \in SUBSET DOMAIN CandidateEntries :
                 \A p \in X : Len(p) > 2 => Parent(p) \in X}}

\* The working directory of the session when recursive_download is called.
CallCwd == <<>>

Sources == {Path(TRUE, <<"data">>), Path(FALSE, <<"data">>)}

IsDir(tree, p) == p \in DOMAIN tree /\ tree[p] = "dir"

IsFile(tree, p) == p \in DOMAIN tree /\ tree[p] = "file"

Children(tree, d) == {p \in DOMAIN tree : Len(p) = Len(d) + 1 /\ Parent(p) = d}

Orderings(S) ==
    {q \in [1..Cardinality(S) -> S] : \A i, j \in DOMAIN q : q[i] = q[j] => i = j}

Entry(name, type) == [name |-> name, type |-> type]

\* mlsd(facts=["type"]) of the directory d: the directory itself and its
\* parent, then its entries in an order of the server's choice.
Mlsd(tree, d) ==
    {<<Entry(".", "cdir"), Entry("..", "pdir")>> \o q :
        q \in Orderings({Entry(p[Len(p)], tree[p]) : p \in Children(tree, d)})}

Frame(source, destination, entries) ==
    [source |-> source, destination |-> destination, entries |-> entries]

Top == frames[Len(frames)]

RecursiveInit ==
    /\ ExecuteNotCalled
    /\ cluster_type = "local"
    /\ pipeline_name \in PipelineNames
    /\ returned = ""
    /\ BuildDictIdle
    /\ TagsIdle
    /\ DownloadIdle
    /\ ftp_pc = "idle"
    /\ ftp_raised = NoError
    /\ source_arg \in Sources
    /\ server_tree \in ServerTrees
    /\ ftp_cwd = CallCwd
    /\ frames = <<>>
    /\ reports = <<>>
    /\ local_dirs = {}
    /\ local_files = {}
    /\ retrievals = <<>>

recursiveUnchanged ==
    UNCHANGED <<executeVars, cluster_type, pipeline_name, cluster_configuration,
                dask_cfg, step_tags, requirements, downloadVars, source_arg,
                server_tree, reports>>

\* recursive_download(source, destination) is called and iterated.
CallRecursiveDownload ==
    /\ ftp_pc = "idle"
    /\ frames' = <<Frame(source_arg, <<>>, <<>>)>>
    /\ ftp_pc' = "cwd"
    /\ UNCHANGED <<returned, ftp_raised, ftp_cwd, local_dirs, local_files, retrievals>>
    /\ recursiveUnchanged

\* Lines 96-104: cwd(source) succeeds and mlsd lists the new working directory.
\* ftplib raises for every reply that does not start with "2", so that the
\* check of lines 98-99 never fails.
Cwd ==
    /\ ftp_pc = "cwd"
    /\ LET target == ResolvePath(ftp_cwd, Top.source)
       IN  /\ IsDir(server_tree, target)
           /\ ftp_cwd' = target
           /\ \E listing \in Mlsd(server_tree, target) :
                 frames' = [frames EXCEPT ![Len(frames)].entries = listing]
    /\ ftp_pc' = "loop"
    /\ UNCHANGED <<returned, ftp_raised, local_dirs, local_files, retrievals>>
    /\ recursiveUnchanged

\* Line 96: the server refuses the directory, ftplib's cwd raises error_perm.
CwdRaises ==
    /\ ftp_pc = "cwd"
    /\ ~IsDir(server_tree, ResolvePath(ftp_cwd, Top.source))
    /\ ftp_raised' = Error("error_perm", "cwd")
    /\ ftp_pc' = "raised"
    /\ UNCHANGED <<returned, ftp_cwd, frames, local_dirs, local_files, retrievals>>
    /\ recursiveUnchanged

\* Lines 108-110: the entry is a file, dest_file is opened and the server
\* refuses RETR src_file: retrbinary raises error_perm.
RetrRaises ==
    /\ ftp_pc = "loop"
    /\ Top.entries # <<>>
    /\ LET entry     == Head(Top.entries)
           src_file  == PathJoin(Top.source, entry.name)
           dest_file == Append(Top.destination, entry.name)
       IN  /\ entry.type = "file"
           /\ ~IsFile(server_tree, ResolvePath(ftp_cwd, src_file))
           /\ local_files' = local_files \cup {[path |-> dest_file, bytes_of |-> <<>>]}
    /\ ftp_raised' = Error("error_perm", "download")
    /\ ftp_pc' = "raised"
    /\ UNCHANGED <<returned, ftp_cwd, frames, local_dirs, retrievals>>
    /\ recursiveUnchanged

\* Lines 108-111: the entry is a file, dest_file is opened, download writes the
\* bytes of the file RETR src_file names, and FileTransferReport is called
\* with positional arguments, which a pydantic BaseModel does not take:
\* TypeError, no report is yielded.
ReportRaises ==
    /\ ftp_pc = "loop"
    /\ Top.entries # <<>>
    /\ LET entry     == Head(Top.entries)
           src_file  == PathJoin(Top.source, entry.name)
           dest_file == Append(Top.destination, entry.name)
           target    == ResolvePath(ftp_cwd, src_file)
       IN  /\ entry.type = "file"
           /\ IsFile(server_tree, target)
           /\ local_files' = local_files \cup {[path |-> dest_file, bytes_of |-> target]}
           /\ retrievals' = Append(retrievals, [asked |-> src_file, got |-> target])
    /\ ftp_raised' = Error("TypeError", "FileTransferReport")
    /\ ftp_pc' = "raised"
    /\ UNCHANGED <<returned, ftp_cwd, frames, local_dirs>>
    /\ recursiveUnchanged

\* Lines 112-114: the entry is a directory: mkdir, then the nested call.
MakeDirectory ==
    /\ ftp_pc = "loop"
    /\ Top.entries # <<>>
    /\ LET entry     == Head(Top.entries)
           src_file  == PathJoin(Top.source, entry.name)
           dest_file == Append(Top.destination, entry.name)
       IN  /\ entry.type = "dir"
           /\ local_dirs' = local_dirs \cup {dest_file}
           /\ frames' = Append([frames EXCEPT ![Len(frames)].entries = Tail(@)],
                               Frame(src_file, dest_file, <<>>))
    /\ ftp_pc' = "cwd"
    /\ UNCHANGED <<returned, ftp_raised, ftp_cwd, local_files, retrievals>>
    /\ recursiveUnchanged

\* Line 115: any other entry is passed over.
SkipEntry ==
    /\ ftp_pc = "loop"
    /\ Top.entries # <<>>
    /\ Head(Top.entries).type \notin {"file", "dir"}
    /\ frames' = [frames EXCEPT ![Len(frames)].entries = Tail(@)]
    /\ UNCHANGED <<returned, ftp_pc, ftp_raised, ftp_cwd, local_dirs, local_files,
                   retrievals>>
    /\ recursiveUnchanged

\* The listing is exhausted: the call returns to its caller's loop; the
\* working directory stays where the call left it.
ReturnFromCall ==
    /\ ftp_pc = "loop"
    /\ Top.entries = <<>>
    /\ frames' = SubSeq(frames, 1, Len(frames) - 1)
    /\ ftp_pc' = IF Len(frames) = 1 THEN "done" ELSE "loop"
    /\ returned' = IF Len(frames) = 1 THEN "recursive_download" ELSE returned
    /\ UNCHANGED <<ftp_raised, ftp_cwd, local_dirs, local_files, retrievals>>
    /\ recursiveUnchanged

RecursiveNext ==
    \/ CallRecursiveDownload
    \/ Cwd
    \/ CwdRaises
    \/ RetrRaises
    \/ ReportRaises
    \/ MakeDirectory
    \/ SkipEntry
    \/ ReturnFromCall

RecursiveSpec == RecursiveInit /\ [][RecursiveNext]_vars

\* The tree below the source directory, as the server read `source` when
\* recursive_download was called.
SourceDir == ResolvePath(CallCwd, source_arg)

Below(d) == {p \in DOMAIN server_tree : Len(p) > Len(d) /\ SubSeq(p, 1, Len(d)) = d}

RelativeTo(d, p) == SubSeq(p, Len(d) + 1, Len(p))

TreeFiles == {p \in Below(SourceDir) : server_tree[p] = "file"}

TreeDirs == {p \in Below(SourceDir) : server_tree[p] = "dir"}

\* C20: every RETR the server serves is for the file `source`/<relative path>
\* read against the working directory of the time of the call; and when
\* recursive_download has ended it has not failed, it has yielded one report
\* per regular file of the tree, it has retrieved exactly those files and
\* written each to its place below destination, and it has made one local
\* directory per remote sub-directory.
C20_OneReportPerFile ==
    /\ \A i \in DOMAIN retrievals :
          retrievals[i].got = ResolvePath(CallCwd, retrievals[i].asked)
    /\ ftp_pc \in {"done", "raised"} =>
          /\ ftp_raised = NoError
          /\ Len(reports) = Cardinality(TreeFiles)
          /\ {reports[i].source_file : i \in DOMAIN reports}
                 = {Path(source_arg.abs, source_arg.parts \o RelativeTo(SourceDir, p)) :
                      p \in TreeFiles}
          /\ {retrievals[i].got : i \in DOMAIN retrievals} = TreeFiles
          /\ local_files = {[path |-> RelativeTo(SourceDir, p), bytes_of |-> p] :
                               p \in TreeFiles}
          /\ local_dirs = {RelativeTo(SourceDir, p) : p \in TreeDirs}

====
